---- MODULE Spec2Model ----
(***************************************************************************)
(* Model of functions/scripts/extractTranscriptsPython.py: the proxy list  *)
(* fetch (fetch_webshare_proxies), the retry controller                     *)
(* (extract_transcript) and the command line entry point (__main__).        *)
(*                                                                          *)
(* Strings are TLC strings (Len, SubSeq and \o work on them), so substring  *)
(* tests, lower-casing, joining and f-string formatting are computed, not   *)
(* assumed.  Times are whole seconds; segment start/duration are tenths of  *)
(* a second.  The external collaborators (the Webshare HTTP API, the        *)
(* WebshareProxyConfig constructor, random.choice, random.uniform and       *)
(* YouTubeTranscriptApi.fetch) are nondeterministic inputs of the actions.  *)
(***************************************************************************)
EXTENDS Integers, Sequences, FiniteSets, TLC

VARIABLES
    pc,                 \* control point: "main", "extract", "loop", "returned", "exit", "raised"
    entry,              \* "main": run as a script; "call": extract_transcript called directly
    argc,               \* len(sys.argv)
    WEBSHARE_API_KEY,   \* module global read from the environment
    response,           \* what the Webshare API answers to requests.get (NoRequest: none is made)
    retry_count,        \* parameter of extract_transcript
    available_proxies,  \* local of extract_transcript
    attempt,            \* loop variable of extract_transcript
    error_msg,          \* str(e) of the last caught exception
    result,             \* the dict returned by extract_transcript (None until it returns)
    fetched,            \* the transcript returned by the successful ytt_api.fetch
    events,             \* calls made so far: proxy list fetches, sleeps, transcript fetches
    stdout,             \* objects printed with json.dumps, in order
    exit_code           \* process exit status (-1 while running)

vars == <<pc, entry, argc, WEBSHARE_API_KEY, response, retry_count, available_proxies,
          attempt, error_msg, result, fetched, events, stdout, exit_code>>

----------------------------------------------------------------------------
(* Bounds of the model *)

MaxRetry == 4
MaxPoolRetry == 2
MaxFairRetry == 2
MaxFaultRetry == 2
MaxArgc == 3

(* Program constants *)

DefaultRetryCount == 3
DelayLo == 1
DelayHi == 3
GeneralLo == 2
GeneralHi == 5
BackoffBase == 30
HttpOk == 200

----------------------------------------------------------------------------
(* Python primitives *)

None == [none |-> TRUE]

LowerChar(c) ==
    CASE c = "A" -> "a" [] c = "B" -> "b" [] c = "C" -> "c" [] c = "D" -> "d"
      [] c = "E" -> "e" [] c = "F" -> "f" [] c = "G" -> "g" [] c = "H" -> "h"
      [] c = "I" -> "i" [] c = "J" -> "j" [] c = "K" -> "k" [] c = "L" -> "l"
      [] c = "M" -> "m" [] c = "N" -> "n" [] c = "O" -> "o" [] c = "P" -> "p"
      [] c = "Q" -> "q" [] c = "R" -> "r" [] c = "S" -> "s" [] c = "T" -> "t"
      [] c = "U" -> "u" [] c = "V" -> "v" [] c = "W" -> "w" [] c = "X" -> "x"
      [] c = "Y" -> "y" [] c = "Z" -> "z" [] OTHER -> c

RECURSIVE Lower(_)
Lower(s) ==
    IF Len(s) = 0 THEN ""
    ELSE LowerChar(SubSeq(s, 1, 1)) \o Lower(SubSeq(s, 2, Len(s)))

\* sub in s
Contains(sub, s) ==
    \E i \in 1..(Len(s) - Len(sub) + 1) : SubSeq(s, i, i + Len(sub) - 1) = sub

\* str(n) inside an f-string
Str(n) == ToString(n)

\* a join that forgets the separator
RECURSIVE JoinNoSeparator(_, _)
JoinNoSeparator(sep, texts) ==
    IF Len(texts) = 0 THEN ""
    ELSE texts[1] \o JoinNoSeparator(sep, Tail(texts))

RECURSIVE Join(_, _)
Join(sep, texts) ==
    IF Len(texts) = 0 THEN ""
    ELSE IF Len(texts) = 1 THEN texts[1]
    ELSE texts[1] \o sep \o Join(sep, Tail(texts))

----------------------------------------------------------------------------
(* fetch_webshare_proxies *)

ProxyFields == {"proxy_address", "port", "username", "password"}

E1 == [proxy_address |-> "10.0.0.1", port |-> 8001, username |-> "u1", password |-> "p1"]
E2 == [proxy_address |-> "10.0.0.2", port |-> 8002, username |-> "u2", password |-> "p2",
       id |-> "d-2"]
E3 == [proxy_address |-> "10.0.0.3", port |-> 8003, username |-> "u3"]

NoRequest == [kind |-> "none"]
NetworkError == [kind |-> "exception"]
Http(status, body) == [kind |-> "http", status |-> status, body |-> body]
NotJson == [json |-> FALSE]
JsonDict(items) == [json |-> TRUE, type |-> "dict", dict |-> items]
JsonList(items) == [json |-> TRUE, type |-> "list", list |-> items]

Page(results) == Http(HttpOk, JsonDict([results |-> results, count |-> Len(results)]))

\* answers of the Webshare API that leave at most one usable proxy
Responses ==
    {NetworkError, Http(403, NotJson), Http(HttpOk, NotJson),
     Http(HttpOk, JsonList(<<E1>>)), Http(HttpOk, JsonDict([count |-> 0])),
     Http(429, JsonDict([results |-> <<E1>>])),
     Page(<<>>), Page(<<E2>>), Page(<<E1, E3>>), Page(<<E3, E1>>)}

\* answers with a pool of two proxies
PoolResponses == {Page(<<E1, E2>>)}

Raise == [raised |-> TRUE, value |-> <<>>]
Return(v) == [raised |-> FALSE, value |-> v]

\* the dict literal of lines 54-59: four keyed reads, KeyError when one is absent
ProxyConfigOf(proxy_data) ==
    IF ProxyFields \subseteq DOMAIN proxy_data
    THEN Return([proxy_address |-> proxy_data.proxy_address,
                 port |-> proxy_data.port,
                 username |-> proxy_data.username,
                 password |-> proxy_data.password])
    ELSE Raise

\* a loop that keeps the proxies built before a malformed entry
RECURSIVE BuildProxiesPartial(_, _)
BuildProxiesPartial(results, proxies) ==
    IF Len(results) = 0 THEN Return(proxies)
    ELSE LET c == ProxyConfigOf(Head(results))
         IN  IF c.raised THEN Return(proxies)
             ELSE BuildProxiesPartial(Tail(results), Append(proxies, c.value))

\* the for loop of lines 53-60, proxies being the list built so far
RECURSIVE BuildProxies(_, _)
BuildProxies(results, proxies) ==
    IF Len(results) = 0 THEN Return(proxies)
    ELSE LET c == ProxyConfigOf(Head(results))
         IN  IF c.raised THEN Raise
             ELSE BuildProxies(Tail(results), Append(proxies, c.value))

\* data.get('results', []): AttributeError when data is no dict
GetResults(data) ==
    IF data.type = "dict"
    THEN Return(IF "results" \in DOMAIN data.dict THEN data.dict.results ELSE <<>>)
    ELSE Raise

\* the body of the try block, lines 27-63
FetchBody(key, resp) ==
    IF key = "" THEN Return(<<>>)
    ELSE IF resp.kind = "exception" THEN Raise
    ELSE IF resp.status # HttpOk THEN Return(<<>>)
    ELSE IF ~resp.body.json THEN Raise
    ELSE LET r == GetResults(resp.body)
         IN  IF r.raised THEN Raise ELSE BuildProxies(r.value, <<>>)

\* lines 24-67: the try block and its except Exception handler
fetch_webshare_proxies(key, resp) ==
    LET r == FetchBody(key, resp)
    IN  IF r.raised THEN Return(<<>>) ELSE r

----------------------------------------------------------------------------
(* Inputs of the retry controller *)

\* messages str(e) of the exceptions ytt_api.fetch raises
ErrorMessages ==
    {"429 Too Many Requests", "IP ban", "Request BLOCKED",
     "No transcript found", "No Transcript found", "Video unAvailable",
     "Connection reset", "bad ip address", "429: no transcript available", ""}

Snippet(text, start, duration) == [text |-> text, start |-> start, duration |-> duration]

\* what ytt_api.fetch returns when it succeeds
Transcripts ==
    {<<>>,
     <<Snippet("Hello", 0, 12), Snippet("world", 12, 8)>>,
     <<Snippet("a b", 0, 5), Snippet("", 5, 0), Snippet("c", 5, 20)>>}

\* random.uniform(a, b): some value of [a, b]; the two ends of the window are drawn
Uniform(a, b) == {a, b}

----------------------------------------------------------------------------
(* create_proxy_config and the proxy selection of an attempt *)

\* lines 69-82; ctor_ok: the WebshareProxyConfig constructor did not raise
create_proxy_config(proxy_data, ctor_ok) ==
    IF proxy_data = None THEN None
    ELSE IF ctor_ok
         THEN [proxy_username |-> proxy_data.username,
               proxy_password |-> proxy_data.password]
         ELSE None

\* a selection that always takes the head of the list (proxies[0])
ProxySelectionsFirstOnly(proxies) ==
    IF Len(proxies) = 0
    THEN {[proxy_data |-> None, proxy_config |-> None]}
    ELSE {[proxy_data |-> proxies[1],
           proxy_config |-> create_proxy_config(proxies[1], ok)] : ok \in BOOLEAN}

\* lines 125-130: the (proxy_data, proxy_config) pairs an attempt can end up with
ProxySelections(proxies) ==
    IF Len(proxies) = 0
    THEN {[proxy_data |-> None, proxy_config |-> None]}
    ELSE {[proxy_data |-> proxies[k],
           proxy_config |-> create_proxy_config(proxies[k], ok)] :
             k \in 1..Len(proxies), ok \in BOOLEAN}

\* a proxy_used that formats the missing proxy instead of testing for it
ProxyUsedUnguarded(sel) ==
    IF sel.proxy_config # None
    THEN sel.proxy_data.proxy_address \o ":" \o Str(sel.proxy_data.port)
    ELSE "None:None"

\* a proxy_used that names the selected proxy whether or not its configuration exists
ProxyUsedIgnoresConfig(sel) ==
    IF sel.proxy_data # None
    THEN sel.proxy_data.proxy_address \o ":" \o Str(sel.proxy_data.port)
    ELSE "none"

\* line 157
ProxyUsed(sel) ==
    IF sel.proxy_config # None /\ sel.proxy_data # None
    THEN sel.proxy_data.proxy_address \o ":" \o Str(sel.proxy_data.port)
    ELSE "none"

----------------------------------------------------------------------------
(* Classification of a caught exception, lines 166 and 183 *)

\* a rate-limit test that lower-cases the message for all three words
IsRateLimitAnyCase(msg) ==
    \/ Contains("ip", Lower(msg))
    \/ Contains("blocked", Lower(msg))
    \/ Contains("429", Lower(msg))

IsRateLimit(msg) ==
    Contains("IP", msg) \/ Contains("blocked", Lower(msg)) \/ Contains("429", msg)

IsNoTranscript(msg) ==
    Contains("transcript", Lower(msg)) \/ Contains("available", Lower(msg))

Classify(msg) ==
    IF IsRateLimit(msg) THEN "rate_limit"
    ELSE IF IsNoTranscript(msg) THEN "no_transcript"
    ELSE "unknown"

\* the class of each message the transcript source can raise
ClassOf == [msg \in ErrorMessages |-> Classify(msg)]

\* a linear backoff
WaitTimeLinear(i) == (i + 1) * BackoffBase

\* wait_time of line 169
WaitTime(i) == (2 ^ i) * BackoffBase

----------------------------------------------------------------------------
(* Result dicts *)

Failure(error, errorType) ==
    [success |-> FALSE, error |-> error, errorType |-> errorType,
     segments |-> <<>>, fullText |-> "", segmentCount |-> 0]

\* a success dict with a zero-based attempt
SuccessZeroBased(fetched_transcript, i, sel) ==
    [success |-> TRUE,
     segments |-> [k \in 1..Len(fetched_transcript) |->
                     [text |-> fetched_transcript[k].text,
                      start |-> fetched_transcript[k].start,
                      duration |-> fetched_transcript[k].duration]],
     fullText |-> Join(" ", [k \in 1..Len(fetched_transcript) |-> fetched_transcript[k].text]),
     segmentCount |-> Len(fetched_transcript),
     attempt |-> i,
     proxy_used |-> ProxyUsed(sel)]

\* lines 138-158
Success(fetched_transcript, i, sel) ==
    [success |-> TRUE,
     segments |-> [k \in 1..Len(fetched_transcript) |->
                     [text |-> fetched_transcript[k].text,
                      start |-> fetched_transcript[k].start,
                      duration |-> fetched_transcript[k].duration]],
     fullText |-> Join(" ", [k \in 1..Len(fetched_transcript) |-> fetched_transcript[k].text]),
     segmentCount |-> Len(fetched_transcript),
     attempt |-> i + 1,
     proxy_used |-> ProxyUsed(sel)]

\* an IP_BLOCKED dict that drops the message of the last error
IpBlockedDropsMessage(n, msg) ==
    Failure("IP blocked/rate limited after " \o Str(n) \o " attempts", "IP_BLOCKED")

IpBlocked(n, msg) ==
    Failure("IP blocked/rate limited after " \o Str(n) \o " attempts: " \o msg, "IP_BLOCKED")

\* a NO_TRANSCRIPT dict shaped like the usage error
NoTranscriptBare(msg) ==
    [success |-> FALSE, error |-> "No transcript available: " \o msg]

NoTranscript(msg) ==
    Failure("No transcript available: " \o msg, "NO_TRANSCRIPT")

Unknown(n, msg) ==
    Failure("Failed after " \o Str(n) \o " attempts: " \o msg, "UNKNOWN")

MaxRetriesExceeded(n) ==
    Failure("All " \o Str(n) \o " attempts failed", "MAX_RETRIES_EXCEEDED")

Usage == [success |-> FALSE, error |-> "Usage: python extractTranscriptsPython.py <video_id>"]

----------------------------------------------------------------------------
(* Recorded calls *)

ProxyFetchEvent == [op |-> "proxy_fetch", attempt |-> -1, kind |-> "", secs |-> 0, proxy |-> ""]
SleepEvent(kind, i, secs) ==
    [op |-> "sleep", attempt |-> i, kind |-> kind, secs |-> secs, proxy |-> ""]
\* lines 133-136 and 101-104: the fetch goes through the client built from
\* proxy_config, recorded by the credentials it connects with ("none": direct)
FetchEvent(i, sel) ==
    [op |-> "fetch", attempt |-> i, kind |-> "", secs |-> 0,
     proxy |-> IF sel.proxy_config = None THEN "none" ELSE sel.proxy_config.proxy_username]

\* a jitter that also delays the first attempt
JitterOnFirst(i) ==
    {<<SleepEvent("jitter", i, delay)>> : delay \in Uniform(DelayLo, DelayHi)}

\* lines 119-122: the jitter sleeps that can open attempt i
Jitter(i) ==
    IF i > 0
    THEN {<<SleepEvent("jitter", i, delay)>> : delay \in Uniform(DelayLo, DelayHi)}
    ELSE {<<>>}

----------------------------------------------------------------------------
(* Initial states *)

\* the states a run can start in, the API answering one of responses and
\* extract_transcript being called with one of retries when called directly
InitWith(responses, retries) ==
    /\ entry \in {"main", "call"}
    /\ pc = IF entry = "main" THEN "main" ELSE "extract"
    /\ argc \in IF entry = "main" THEN 1..MaxArgc ELSE {0}
    /\ WEBSHARE_API_KEY \in {"", "secret"}
    /\ response \in IF WEBSHARE_API_KEY = "" THEN {NoRequest} ELSE responses
    /\ retry_count \in IF entry = "main" THEN {DefaultRetryCount} ELSE retries
    /\ available_proxies = <<>>
    /\ attempt = 0
    /\ error_msg = ""
    /\ result = None
    /\ fetched = <<>>
    /\ events = <<>>
    /\ stdout = <<>>
    /\ exit_code = -1

Init == InitWith(Responses, (-1)..MaxRetry)

InitPool == InitWith(PoolResponses, 0..MaxPoolRetry)

InitFaults == InitWith(Responses, 0..MaxFaultRetry)

----------------------------------------------------------------------------
(* Actions *)

\* lines 219-224: the argument check of the script
Main ==
    /\ pc = "main"
    /\ IF argc # 2
       THEN /\ stdout' = Append(stdout, Usage)
            /\ exit_code' = 1
            /\ pc' = "exit"
       ELSE /\ pc' = "extract"
            /\ UNCHANGED <<stdout, exit_code>>
    /\ UNCHANGED <<entry, argc, WEBSHARE_API_KEY, response, retry_count, available_proxies,
                   attempt, error_msg, result, fetched, events>>

\* lines 113-114: extract_transcript fetches the proxy list; an exception that
\* fetch_webshare_proxies let through would end the run at "raised"
FetchProxies ==
    /\ pc = "extract"
    /\ LET r == fetch_webshare_proxies(WEBSHARE_API_KEY, response)
       IN  IF r.raised
           THEN /\ pc' = "raised"
                /\ exit_code' = 1
                /\ available_proxies' = available_proxies
           ELSE /\ pc' = "loop"
                /\ exit_code' = exit_code
                /\ available_proxies' = r.value
    /\ attempt' = 0
    /\ events' = Append(events, ProxyFetchEvent)
    /\ UNCHANGED <<entry, argc, WEBSHARE_API_KEY, response, retry_count, error_msg, result,
                   fetched, stdout>>

\* lines 116-160: an attempt whose transcript fetch succeeds
AttemptSucceeds ==
    /\ pc = "loop"
    /\ attempt < retry_count
    /\ \E jitter \in Jitter(attempt),
          sel \in ProxySelections(available_proxies),
          fetched_transcript \in Transcripts :
         /\ events' = events \o jitter \o <<FetchEvent(attempt, sel)>>
         /\ fetched' = fetched_transcript
         /\ result' = Success(fetched_transcript, attempt, sel)
    /\ pc' = "returned"
    /\ UNCHANGED <<entry, argc, WEBSHARE_API_KEY, response, retry_count, available_proxies,
                   attempt, error_msg, stdout, exit_code>>

\* a handler without the no-transcript branch
HandlerRetriesAll(msg, i, n) ==
    IF ClassOf[msg] = "rate_limit"
    THEN IF i < n - 1
         THEN {[sleeps |-> <<SleepEvent("rate_limit", i, WaitTime(i))>>, result |-> None]}
         ELSE {[sleeps |-> <<>>, result |-> IpBlocked(n, msg)]}
    ELSE IF i < n - 1
         THEN {[sleeps |-> <<SleepEvent("general", i, delay)>>, result |-> None] :
                 delay \in Uniform(GeneralLo, GeneralHi)}
         ELSE {[sleeps |-> <<>>, result |-> Unknown(n, msg)]}

\* a handler that continues after the last attempt too (i < n for i < n - 1)
HandlerRetriesLast(msg, i, n) ==
    IF ClassOf[msg] = "rate_limit"
    THEN IF i < n
         THEN {[sleeps |-> <<SleepEvent("rate_limit", i, WaitTime(i))>>, result |-> None]}
         ELSE {[sleeps |-> <<>>, result |-> IpBlocked(n, msg)]}
    ELSE IF ClassOf[msg] = "no_transcript"
    THEN {[sleeps |-> <<>>, result |-> NoTranscript(msg)]}
    ELSE IF i < n
         THEN {[sleeps |-> <<SleepEvent("general", i, delay)>>, result |-> None] :
                 delay \in Uniform(GeneralLo, GeneralHi)}
         ELSE {[sleeps |-> <<>>, result |-> Unknown(n, msg)]}

\* a handler that gives up on a missing transcript only at the last attempt
HandlerNoTranscriptLast(msg, i, n) ==
    IF ClassOf[msg] = "rate_limit"
    THEN IF i < n - 1
         THEN {[sleeps |-> <<SleepEvent("rate_limit", i, WaitTime(i))>>, result |-> None]}
         ELSE {[sleeps |-> <<>>, result |-> IpBlocked(n, msg)]}
    ELSE IF ClassOf[msg] = "no_transcript" /\ (i = 0 \/ i >= n - 1)
    THEN {[sleeps |-> <<>>, result |-> NoTranscript(msg)]}
    ELSE IF i < n - 1
         THEN {[sleeps |-> <<SleepEvent("general", i, delay)>>, result |-> None] :
                 delay \in Uniform(GeneralLo, GeneralHi)}
         ELSE {[sleeps |-> <<>>, result |-> Unknown(n, msg)]}

\* a handler that does not retry an unclassified error
HandlerUnknownTerminal(msg, i, n) ==
    IF ClassOf[msg] = "rate_limit"
    THEN IF i < n - 1
         THEN {[sleeps |-> <<SleepEvent("rate_limit", i, WaitTime(i))>>, result |-> None]}
         ELSE {[sleeps |-> <<>>, result |-> IpBlocked(n, msg)]}
    ELSE IF ClassOf[msg] = "no_transcript"
    THEN {[sleeps |-> <<>>, result |-> NoTranscript(msg)]}
    ELSE {[sleeps |-> <<>>, result |-> Unknown(n, msg)]}

\* a handler that backs off before it looks at the attempts left
HandlerSleepsThenFails(msg, i, n) ==
    IF ClassOf[msg] = "rate_limit"
    THEN IF i < n - 1
         THEN {[sleeps |-> <<SleepEvent("rate_limit", i, WaitTime(i))>>, result |-> None]}
         ELSE {[sleeps |-> <<SleepEvent("rate_limit", i, WaitTime(i))>>,
                result |-> IpBlocked(n, msg)]}
    ELSE IF ClassOf[msg] = "no_transcript"
    THEN {[sleeps |-> <<>>, result |-> NoTranscript(msg)]}
    ELSE IF i < n - 1
         THEN {[sleeps |-> <<SleepEvent("general", i, delay)>>, result |-> None] :
                 delay \in Uniform(GeneralLo, GeneralHi)}
         ELSE {[sleeps |-> <<>>, result |-> Unknown(n, msg)]}

\* what the except handler of lines 162-208 can do with message msg at attempt i of n:
\* the sleep it makes (none: <<>>) and the result it returns (None: the loop continues)
Handler(msg, i, n) ==
    IF ClassOf[msg] = "rate_limit"
    THEN IF i < n - 1
         THEN {[sleeps |-> <<SleepEvent("rate_limit", i, WaitTime(i))>>, result |-> None]}
         ELSE {[sleeps |-> <<>>, result |-> IpBlocked(n, msg)]}
    ELSE IF ClassOf[msg] = "no_transcript"
    THEN {[sleeps |-> <<>>, result |-> NoTranscript(msg)]}
    ELSE IF i < n - 1
         THEN {[sleeps |-> <<SleepEvent("general", i, delay)>>, result |-> None] :
                 delay \in Uniform(GeneralLo, GeneralHi)}
         ELSE {[sleeps |-> <<>>, result |-> Unknown(n, msg)]}

\* a failing attempt of a loop that runs once too often (range(retry_count + 1))
AttemptFailsPastBudget ==
    /\ pc = "loop"
    /\ attempt <= retry_count
    /\ \E jitter \in Jitter(attempt),
          sel \in ProxySelections(available_proxies),
          msg \in ErrorMessages :
         \E h \in Handler(msg, attempt, retry_count) :
             /\ events' = events \o jitter \o <<FetchEvent(attempt, sel)>> \o h.sleeps
             /\ error_msg' = msg
             /\ result' = h.result
             /\ IF h.result = None
                THEN pc' = "loop" /\ attempt' = attempt + 1
                ELSE pc' = "returned" /\ attempt' = attempt
    /\ UNCHANGED <<entry, argc, WEBSHARE_API_KEY, response, retry_count, available_proxies,
                   fetched, stdout, exit_code>>

\* lines 116-136 and 162-208: an attempt whose transcript fetch raises
AttemptFails ==
    /\ pc = "loop"
    /\ attempt < retry_count
    /\ \E jitter \in Jitter(attempt),
          sel \in ProxySelections(available_proxies),
          msg \in ErrorMessages :
         \E h \in Handler(msg, attempt, retry_count) :
             /\ events' = events \o jitter \o <<FetchEvent(attempt, sel)>> \o h.sleeps
             /\ error_msg' = msg
             /\ result' = h.result
             /\ IF h.result = None
                THEN pc' = "loop" /\ attempt' = attempt + 1
                ELSE pc' = "returned" /\ attempt' = attempt
    /\ UNCHANGED <<entry, argc, WEBSHARE_API_KEY, response, retry_count, available_proxies,
                   fetched, stdout, exit_code>>

\* the steps of an attempt, other than the fetch, whose calls can raise:
\* time.sleep (line 122), create_api_instance (line 133), the conversion (lines 139-155)
FaultStages == {"sleep", "client", "convert"}

\* a try block that opens only at the fetch
CaughtFromFetch(stage) == stage \in {"fetch", "convert"}

\* lines 117-162: every step of an attempt lies inside try ... except Exception
Caught(stage) == stage \in {"sleep", "select", "client", "fetch", "convert"}

\* the calls an attempt has made when it raises at stage
CallsBefore(stage, i, jitter, sel) ==
    IF stage = "convert" THEN jitter \o <<FetchEvent(i, sel)>> ELSE jitter

\* lines 116-160 and 162-208: an attempt that raises msg outside the fetch
AttemptFaults ==
    /\ pc = "loop"
    /\ attempt < retry_count
    /\ \E stage \in FaultStages,
          jitter \in Jitter(attempt),
          sel \in ProxySelections(available_proxies),
          msg \in ErrorMessages :
         /\ stage = "sleep" => attempt > 0
         /\ IF Caught(stage)
            THEN \E h \in Handler(msg, attempt, retry_count) :
                   /\ events' = events \o CallsBefore(stage, attempt, jitter, sel) \o h.sleeps
                   /\ error_msg' = msg
                   /\ result' = h.result
                   /\ IF h.result = None
                      THEN pc' = "loop" /\ attempt' = attempt + 1
                      ELSE pc' = "returned" /\ attempt' = attempt
            ELSE /\ events' = events \o CallsBefore(stage, attempt, jitter, sel)
                 /\ error_msg' = msg
                 /\ pc' = "raised"
                 /\ UNCHANGED <<result, attempt>>
    /\ UNCHANGED <<entry, argc, WEBSHARE_API_KEY, response, retry_count, available_proxies,
                   fetched, stdout, exit_code>>

\* lines 210-217: the loop ran out without returning
LoopExhausted ==
    /\ pc = "loop"
    /\ attempt >= retry_count
    /\ result' = MaxRetriesExceeded(retry_count)
    /\ pc' = "returned"
    /\ UNCHANGED <<entry, argc, WEBSHARE_API_KEY, response, retry_count, available_proxies,
                   attempt, error_msg, fetched, events, stdout, exit_code>>

\* a script that reports a failed extraction in its exit status
PrintResultExitsByOutcome ==
    /\ pc = "returned"
    /\ entry = "main"
    /\ stdout' = Append(stdout, result)
    /\ exit_code' = IF result.success THEN 0 ELSE 1
    /\ pc' = "exit"
    /\ UNCHANGED <<entry, argc, WEBSHARE_API_KEY, response, retry_count, available_proxies,
                   attempt, error_msg, result, fetched, events>>

\* lines 225-226: the script prints the result and ends
PrintResult ==
    /\ pc = "returned"
    /\ entry = "main"
    /\ stdout' = Append(stdout, result)
    /\ exit_code' = 0
    /\ pc' = "exit"
    /\ UNCHANGED <<entry, argc, WEBSHARE_API_KEY, response, retry_count, available_proxies,
                   attempt, error_msg, result, fetched, events>>

Next ==
    \/ Main
    \/ FetchProxies
    \/ AttemptSucceeds
    \/ AttemptFails
    \/ LoopExhausted
    \/ PrintResult

Spec == Init /\ [][Next]_vars

\* the interpreter keeps running the single thread: every call and sleep returns
InitFair == InitWith(Responses, (-1)..MaxFairRetry)

FairSpec == InitFair /\ [][Next]_vars /\ WF_vars(Next)

SpecPool == InitPool /\ [][Next]_vars

\* the program with attempts that raise at any of their steps
NextFaults ==
    \/ Main
    \/ FetchProxies
    \/ AttemptSucceeds
    \/ AttemptFails
    \/ AttemptFaults
    \/ LoopExhausted
    \/ PrintResult

SpecFaults == InitFaults /\ [][NextFaults]_vars

----------------------------------------------------------------------------
(* Observations used by the properties *)

Returned == result # None

Succeeded == Returned /\ result.success

Failed == Returned /\ ~result.success

Fetches == SelectSeq(events, LAMBDA e : e.op = "fetch")

Sleeps == SelectSeq(events, LAMBDA e : e.op = "sleep")

LastEvent == events[Len(events)]

ErrorTypes == {"IP_BLOCKED", "NO_TRANSCRIPT", "UNKNOWN", "MAX_RETRIES_EXCEEDED"}

\* texts[1] " " texts[2] " " ... texts[k], built from the left
RECURSIVE SpaceJoined(_, _)
SpaceJoined(texts, k) ==
    IF k = 0 THEN ""
    ELSE IF k = 1 THEN texts[1]
    ELSE SpaceJoined(texts, k - 1) \o " " \o texts[k]

----------------------------------------------------------------------------
(* Properties *)

\* C1: a successful result carries segments, fullText, segmentCount, attempt and
\* proxy_used; segmentCount is the number of segments, the segments are those of
\* the transcript source in its order, and fullText is their texts joined by
\* single spaces ("" for none).
C1_SuccessShape ==
    Succeeded =>
        /\ {"segments", "fullText", "segmentCount", "attempt", "proxy_used"}
              \subseteq DOMAIN result
        /\ result.segmentCount = Len(result.segments)
        /\ Len(result.segments) = Len(fetched)
        /\ \A k \in 1..Len(fetched) :
              /\ DOMAIN result.segments[k] = {"text", "start", "duration"}
              /\ result.segments[k].text = fetched[k].text
              /\ result.segments[k].start = fetched[k].start
              /\ result.segments[k].duration = fetched[k].duration
        /\ result.fullText =
              SpaceJoined([k \in 1..Len(fetched) |-> fetched[k].text], Len(fetched))
        /\ (Len(fetched) = 0 => result.fullText = "")

C1_Witness ==
    /\ Succeeded
    /\ result.segmentCount = 3
    /\ result.fullText = "a b  c"

\* C2 (as claimed): every object the process prints with success = false carries
\* error and errorType, errorType being one of the four error types, and has
\* segments = [], fullText = "" and segmentCount = 0.
C2_FailureShapeOfOutput ==
    \A k \in 1..Len(stdout) :
        ~stdout[k].success =>
            /\ {"error", "errorType", "segments", "fullText", "segmentCount"}
                  \subseteq DOMAIN stdout[k]
            /\ stdout[k].errorType \in ErrorTypes
            /\ stdout[k].segments = <<>>
            /\ stdout[k].fullText = ""
            /\ stdout[k].segmentCount = 0

\* C3: in every result of extract_transcript, attempt and proxy_used are present
\* exactly when success is true, error and errorType exactly when it is false.
C3_FieldsExclusive ==
    Returned =>
        /\ "success" \in DOMAIN result
        /\ result.success \in BOOLEAN
        /\ ("attempt" \in DOMAIN result) = result.success
        /\ ("proxy_used" \in DOMAIN result) = result.success
        /\ ("error" \in DOMAIN result) = ~result.success
        /\ ("errorType" \in DOMAIN result) = ~result.success

C3_Witness ==
    /\ Failed
    /\ result.errorType = "NO_TRANSCRIPT"
    /\ attempt = 1
    /\ pc = "returned"

----------------------------------------------------------------------------
(* The words of the classification, read off the messages themselves *)

MentionsTranscript == [msg \in ErrorMessages |-> Contains("transcript", msg)]

RateLimitWords ==
    [msg \in ErrorMessages |->
        Contains("IP", msg) \/ Contains("blocked", Lower(msg)) \/ Contains("429", msg)]

NoTranscriptWords ==
    [msg \in ErrorMessages |->
        Contains("transcript", Lower(msg)) \/ Contains("available", Lower(msg))]

\* the precedence as claimed: every word in any letter case
ClaimedClass ==
    [msg \in ErrorMessages |->
        IF \/ Contains("ip", Lower(msg))
           \/ Contains("blocked", Lower(msg))
           \/ Contains("429", Lower(msg))
        THEN "rate_limit"
        ELSE IF NoTranscriptWords[msg] THEN "no_transcript" ELSE "unknown"]

\* the precedence with "IP" in upper case only
AmendedClass ==
    [msg \in ErrorMessages |->
        IF RateLimitWords[msg] THEN "rate_limit"
        ELSE IF NoTranscriptWords[msg] THEN "no_transcript" ELSE "unknown"]

\* the last step was a failed attempt, error_msg being its message
JustFailed ==
    \/ pc = "loop" /\ attempt > 0
    \/ Failed /\ result.errorType # "MAX_RETRIES_EXCEEDED"

\* how the handler treated that failure
ObservedClass ==
    IF pc = "loop"
    THEN IF LastEvent.op = "sleep" /\ LastEvent.kind = "rate_limit" THEN "rate_limit"
         ELSE IF LastEvent.op = "sleep" /\ LastEvent.kind = "general" THEN "unknown"
         ELSE "none"
    ELSE IF result.errorType = "IP_BLOCKED" THEN "rate_limit"
         ELSE IF result.errorType = "NO_TRANSCRIPT" THEN "no_transcript"
         ELSE IF result.errorType = "UNKNOWN" THEN "unknown"
         ELSE "none"

EndsWith(s, suffix) ==
    /\ Len(s) >= Len(suffix)
    /\ SubSeq(s, Len(s) - Len(suffix) + 1, Len(s)) = suffix

----------------------------------------------------------------------------

\* C4 (as claimed): when the first attempt raises a message containing
\* "transcript", extract_transcript returns after exactly one fetch: it is never
\* at the loop head for a second attempt after such a message.
C4_TranscriptNeverRetried ==
    /\ (pc = "loop" /\ attempt = 1) => ~MentionsTranscript[error_msg]
    /\ (JustFailed /\ pc # "loop" /\ attempt = 0 /\ MentionsTranscript[error_msg])
          => Len(Fetches) = 1

\* C4 (amended): when the first attempt raises a message that contains
\* "transcript" and none of the rate-limit words ("IP", "blocked" in any letter
\* case, "429"), extract_transcript returns NO_TRANSCRIPT after exactly one fetch
\* and no sleep, for every retry count >= 1.
C4_TranscriptNotRetriedUnlessRateLimit ==
    /\ (pc = "loop" /\ attempt = 1 /\ MentionsTranscript[error_msg])
          => RateLimitWords[error_msg]
    /\ (JustFailed /\ pc # "loop" /\ attempt = 0 /\ MentionsTranscript[error_msg]
           /\ ~RateLimitWords[error_msg])
          => /\ result.errorType = "NO_TRANSCRIPT"
             /\ Len(Fetches) = 1
             /\ Len(Sleeps) = 0

C4_Witness ==
    /\ Failed
    /\ retry_count >= 3
    /\ attempt = 0
    /\ error_msg = "No transcript found"
    /\ result.errorType = "NO_TRANSCRIPT"
    /\ Len(Fetches) = 1

\* C5 (as claimed): a failed attempt is classified by case-insensitive substring
\* match: "IP", "blocked" or "429" in any letter case is rate-limit/block, else
\* "transcript" or "available" in any letter case is no-transcript, else unknown.
C5_ClassifiedAnyCase ==
    JustFailed => ObservedClass = ClaimedClass[error_msg]

\* C5 (amended): "IP" is matched in upper case only; "blocked" in any letter case
\* and "429" complete the rate-limit/block class; otherwise "transcript" or
\* "available" in any letter case is no-transcript; otherwise unknown.  A message
\* of both groups is rate-limit/block and is retried while attempts remain.
C5_ClassifiedIpUpperCase ==
    JustFailed =>
        /\ ObservedClass = AmendedClass[error_msg]
        /\ (RateLimitWords[error_msg] /\ NoTranscriptWords[error_msg] /\ pc # "loop")
              => (result.errorType = "IP_BLOCKED" /\ attempt = retry_count - 1)

C5_Witness ==
    /\ pc = "loop"
    /\ attempt = 1
    /\ error_msg = "429: no transcript available"
    /\ LastEvent = SleepEvent("rate_limit", 0, 30)

\* C6: a rate-limit/block failure of attempt i with attempts remaining is followed
\* by one backoff sleep of exactly 30 * 2^i seconds, i the absolute attempt index.
C6_ExponentialBackoff ==
    /\ \A k \in 1..Len(events) :
          (events[k].op = "sleep" /\ events[k].kind = "rate_limit") =>
              /\ events[k].secs = 30 * 2 ^ events[k].attempt
              /\ events[k].attempt < retry_count - 1
              /\ k > 1
              /\ events[k - 1].op = "fetch"
              /\ events[k - 1].attempt = events[k].attempt
    /\ (pc = "loop" /\ attempt > 0 /\ RateLimitWords[error_msg]) =>
          LastEvent = SleepEvent("rate_limit", attempt - 1, 30 * 2 ^ (attempt - 1))

C6_Witness ==
    /\ retry_count = 4
    /\ \E a, b, c \in 1..Len(events) :
          /\ a < b /\ b < c
          /\ events[a] = SleepEvent("rate_limit", 0, 30)
          /\ events[b] = SleepEvent("rate_limit", 1, 60)
          /\ events[c] = SleepEvent("rate_limit", 2, 120)

\* C7: when the last permitted attempt fails in a retryable class, the failure's
\* errorType follows the class of that last failure alone (IP_BLOCKED for
\* rate-limit/block, UNKNOWN for unknown) and its error text carries the retry
\* count and ends with the last error message.
C7_ExhaustedByLastClass ==
    (Failed /\ attempt = retry_count - 1 /\ AmendedClass[error_msg] # "no_transcript") =>
        /\ result.errorType =
              (IF RateLimitWords[error_msg] THEN "IP_BLOCKED" ELSE "UNKNOWN")
        /\ Contains("after " \o Str(retry_count) \o " attempts: ", result.error)
        /\ EndsWith(result.error, ": " \o error_msg)

C7_Witness ==
    /\ Failed
    /\ retry_count = 3
    /\ attempt = 2
    /\ result.errorType = "IP_BLOCKED"
    /\ error_msg = "Request BLOCKED"
    /\ \E k \in 1..Len(events) : events[k].op = "sleep" /\ events[k].kind = "general"

\* C8: the first successful attempt ends the run: the result has attempt = i + 1,
\* which is the number of fetches made, and the successful fetch stays the last
\* call made (no fetch and no sleep after it).
C8_FirstSuccessEnds ==
    Succeeded =>
        /\ pc \in {"returned", "exit"}
        /\ result.attempt = attempt + 1
        /\ Len(Fetches) = result.attempt
        /\ LastEvent.op = "fetch"
        /\ LastEvent.attempt = attempt

C8_Witness ==
    /\ Succeeded
    /\ pc = "exit"
    /\ retry_count = 3
    /\ result.attempt = 3
    /\ result.fullText = "Hello world"
    /\ result.segmentCount = 2
    /\ \E a, b \in 1..Len(events) :
          /\ events[a] = SleepEvent("rate_limit", 0, 30)
          /\ events[b] = SleepEvent("rate_limit", 1, 60)

\* the proxy list was fetched and came back empty
NoProxies ==
    /\ pc \in {"loop", "returned", "exit"}
    /\ Len(events) >= 1
    /\ Len(available_proxies) = 0

\* C9: with zero proxies every attempt still makes its transcript fetch, without a
\* proxy; no failure comes from the missing proxies, and a success reports
\* proxy_used = "none".
C9_ProxylessAttempts ==
    NoProxies =>
        /\ \A k \in 1..Len(Fetches) : Fetches[k].proxy = "none"
        /\ Len(Fetches) = (IF pc = "loop" THEN attempt
                           ELSE IF retry_count >= 1 THEN attempt + 1 ELSE 0)
        /\ Succeeded => result.proxy_used = "none"
        /\ (Failed /\ retry_count >= 1) =>
              /\ result.errorType \in {"IP_BLOCKED", "NO_TRANSCRIPT", "UNKNOWN"}
              /\ Len(Fetches) >= 1

C9_Witness ==
    /\ NoProxies
    /\ Succeeded
    /\ WEBSHARE_API_KEY = ""
    /\ result.attempt = 3
    /\ Len(Fetches) = 3

\* the API answered 200 with a dict whose results, if any, all have the four fields
WellFormedPage ==
    /\ WEBSHARE_API_KEY # ""
    /\ response.kind = "http"
    /\ response.status = 200
    /\ response.body.json
    /\ response.body.type = "dict"
    /\ "results" \in DOMAIN response.body.dict =>
          \A k \in 1..Len(response.body.dict.results) :
              ProxyFields \subseteq DOMAIN response.body.dict.results[k]

\* C10: fetch_webshare_proxies never raises; without an API key, on a network
\* exception, a non-200 answer or a malformed payload (some entry lacking a field
\* included) it returns the empty list, never a partial one; otherwise it returns
\* one four-field entry per entry of results, in order.
C10_ProxyFetchTotal ==
    /\ pc # "raised"
    /\ (pc \notin {"main", "extract"} /\ Len(events) >= 1) =>
          IF WellFormedPage /\ "results" \in DOMAIN response.body.dict
          THEN /\ Len(available_proxies) = Len(response.body.dict.results)
               /\ \A k \in 1..Len(available_proxies) :
                     /\ DOMAIN available_proxies[k] = ProxyFields
                     /\ \A f \in ProxyFields :
                           available_proxies[k][f] = response.body.dict.results[k][f]
          ELSE available_proxies = <<>>

C10_Witness ==
    /\ pc = "loop"
    /\ Len(events) >= 1
    /\ response = Page(<<E1, E3>>)
    /\ available_proxies = <<>>

----------------------------------------------------------------------------

\* C11: run with an argument count other than one video id, the script prints one
\* object with success = false and exits 1 without fetching proxies or calling
\* extract_transcript; run with exactly one, it prints exactly the result of
\* extract_transcript and exits 0, whether that result is a success or a failure.
C11_ProcessInvocation ==
    entry = "main" =>
        /\ pc # "exit" => (stdout = <<>> /\ exit_code = -1)
        /\ (pc = "exit" /\ argc # 2) =>
              /\ Len(stdout) = 1
              /\ stdout[1].success = FALSE
              /\ exit_code = 1
              /\ events = <<>>
              /\ result = None
        /\ (pc = "exit" /\ argc = 2) =>
              /\ Returned
              /\ stdout = <<result>>
              /\ exit_code = 0
        /\ argc # 2 => pc \in {"main", "exit"}

C11_Witness ==
    /\ entry = "main"
    /\ pc = "exit"
    /\ argc = 2
    /\ Failed
    /\ result.errorType = "IP_BLOCKED"
    /\ exit_code = 0

\* C12: for every retry count >= 1, whatever the attempts' outcomes,
\* extract_transcript returns from inside the loop and never returns
\* MAX_RETRIES_EXCEEDED.
C12_MaxRetriesUnreachable ==
    (retry_count >= 1 /\ Returned) =>
        /\ result.success \/ result.errorType \in {"NO_TRANSCRIPT", "IP_BLOCKED", "UNKNOWN"}
        /\ attempt < retry_count
        /\ Len(Fetches) = attempt + 1

C12_Witness ==
    /\ Failed
    /\ retry_count = 4
    /\ attempt = 3
    /\ result.errorType = "UNKNOWN"
    /\ Len(Fetches) = 4

\* C14: a failure of the no-transcript class is terminal at any attempt index:
\* NO_TRANSCRIPT is returned at once, with no sleep and no further attempt after
\* the failed fetch, also when attempts remain.
C14_NoTranscriptTerminal ==
    /\ (pc = "loop" /\ attempt > 0) => AmendedClass[error_msg] # "no_transcript"
    /\ (Failed /\ result.errorType # "MAX_RETRIES_EXCEEDED"
           /\ AmendedClass[error_msg] = "no_transcript") =>
          /\ result.errorType = "NO_TRANSCRIPT"
          /\ LastEvent.op = "fetch"
          /\ LastEvent.attempt = attempt
          /\ Len(Fetches) = attempt + 1
    /\ (Failed /\ result.errorType = "NO_TRANSCRIPT") =>
          AmendedClass[error_msg] = "no_transcript"

C14_Witness ==
    /\ Failed
    /\ result.errorType = "NO_TRANSCRIPT"
    /\ retry_count = 4
    /\ attempt = 1
    /\ error_msg = "Video unAvailable"
    /\ LastEvent.op = "fetch"

\* the sleep at position k of events is a backoff sleep of attempt i
IsBackoff(k, i) ==
    /\ events[k].op = "sleep"
    /\ events[k].kind \in {"rate_limit", "general"}
    /\ events[k].attempt = i

\* C15: the fetch of attempt 0 follows no sleep; the fetch of every attempt i > 0
\* directly follows one jitter sleep of 1 to 3 seconds, which follows the backoff
\* sleep made after the failed fetch of attempt i - 1: between two consecutive
\* fetches there are exactly two sleeps, backoff then jitter.
C15_JitterAfterBackoff ==
    \A k \in 1..Len(events) :
        events[k].op = "fetch" =>
            IF events[k].attempt = 0
            THEN k = 2 /\ events[1].op = "proxy_fetch"
            ELSE /\ k > 3
                 /\ events[k - 1].op = "sleep"
                 /\ events[k - 1].kind = "jitter"
                 /\ events[k - 1].attempt = events[k].attempt
                 /\ events[k - 1].secs >= 1
                 /\ events[k - 1].secs <= 3
                 /\ IsBackoff(k - 2, events[k].attempt - 1)
                 /\ events[k - 3].op = "fetch"
                 /\ events[k - 3].attempt = events[k].attempt - 1

C15_Witness ==
    /\ Len(events) >= 8
    /\ events[2].op = "fetch"
    /\ events[3] = SleepEvent("general", 0, 5)
    /\ events[4] = SleepEvent("jitter", 1, 3)
    /\ events[5].op = "fetch"
    /\ events[6] = SleepEvent("rate_limit", 1, 60)
    /\ events[7] = SleepEvent("jitter", 2, 1)
    /\ events[8].op = "fetch"

\* C16: an unknown-class failure of attempt i with attempts remaining is followed
\* by one backoff sleep of 2 to 5 seconds, whatever i, and then by attempt i + 1;
\* UNKNOWN is returned only by the last attempt.
C16_UnknownRetried ==
    /\ (Failed /\ result.errorType = "UNKNOWN") => attempt = retry_count - 1
    /\ (pc = "loop" /\ attempt > 0 /\ AmendedClass[error_msg] = "unknown") =>
          /\ LastEvent.op = "sleep"
          /\ LastEvent.kind = "general"
          /\ LastEvent.attempt = attempt - 1
          /\ attempt < retry_count
    /\ \A k \in 1..Len(events) :
          (events[k].op = "sleep" /\ events[k].kind = "general") =>
              /\ events[k].secs >= 2
              /\ events[k].secs <= 5
              /\ events[k].attempt < retry_count - 1
              /\ k > 1
              /\ events[k - 1].op = "fetch"
              /\ events[k - 1].attempt = events[k].attempt

C16_Witness ==
    /\ pc = "loop"
    /\ retry_count = 4
    /\ attempt = 3
    /\ error_msg = "Connection reset"
    /\ LastEvent = SleepEvent("general", 2, 5)
    /\ events[3] = SleepEvent("general", 0, 2)

\* C20: a failure of the last permitted attempt is returned without a sleep after
\* it, and a backoff sleep is made only when another attempt follows; with
\* retry_count <= 0 no transcript fetch and no sleep is made and the result is
\* MAX_RETRIES_EXCEEDED.
C20_NoWaitAfterFinalFailure ==
    /\ Returned => LastEvent.op # "sleep"
    /\ \A k \in 1..Len(events) :
          (events[k].op = "sleep" /\ events[k].kind # "jitter") =>
              /\ events[k].attempt < retry_count - 1
              /\ (pc = "loop" => events[k].attempt < attempt)
              /\ k < Len(events) => events[k + 1].kind = "jitter"
    /\ (retry_count <= 0 /\ pc \in {"loop", "returned", "exit"}) =>
          /\ Len(Fetches) = 0
          /\ Len(Sleeps) = 0
          /\ Returned => result.errorType = "MAX_RETRIES_EXCEEDED"

C20_Witness ==
    /\ Failed
    /\ retry_count = 3
    /\ attempt = 2
    /\ result.errorType = "UNKNOWN"
    /\ Len(Sleeps) = 4
    /\ LastEvent.op = "fetch"

----------------------------------------------------------------------------

\* the run is over: extract_transcript returned to its caller, or the script ended
Terminated ==
    \/ entry = "call" /\ pc = "returned" /\ Returned
    \/ entry = "main" /\ pc = "exit"

\* at most retry_count fetches, of the attempts 0, 1, 2, ... in this order
WithinBudget ==
    /\ Len(Fetches) <= (IF retry_count > 0 THEN retry_count ELSE 0)
    /\ \A k \in 1..Len(Fetches) : Fetches[k].attempt = k - 1
    /\ attempt >= 0
    /\ pc = "loop" => Len(Fetches) = attempt

\* C13: for every retry count and every sequence of attempt outcomes, every call
\* and sleep returning, the run terminates with a result, makes at most
\* retry_count fetches and visits the attempt indices 0, 1, 2, ... in strictly
\* increasing order, none twice.
C13_TerminatesWithinBudget == []WithinBudget /\ <>Terminated

C13_Witness ==
    /\ Terminated
    /\ entry = "call"
    /\ retry_count = 2
    /\ Len(Fetches) = 2
    /\ Fetches[2].attempt = 1
    /\ Failed

----------------------------------------------------------------------------

\* the name of a fetched proxy, as its address and port
ProxyName(p) == p.proxy_address \o ":" \o Str(p.port)

\* C19: on success proxy_used names the proxy selected in the successful attempt
\* itself, as "address:port", whatever earlier attempts selected; it is "none"
\* exactly when that attempt ran without a proxy configuration (empty list, or
\* configuration creation failed for the selected proxy).
C19_ProxyUsedOfSuccessfulAttempt ==
    Succeeded =>
        LET f == Fetches[Len(Fetches)] IN
        /\ f.attempt = result.attempt - 1
        /\ (result.proxy_used = "none") <=> (f.proxy = "none")
        /\ f.proxy # "none" =>
             \E k \in 1..Len(available_proxies) :
                 /\ available_proxies[k].username = f.proxy
                 /\ result.proxy_used = ProxyName(available_proxies[k])

C19_Witness ==
    /\ Succeeded
    /\ Len(Fetches) = 2
    /\ Fetches[1].proxy = "u1"
    /\ Fetches[2].proxy = "u2"
    /\ result.proxy_used = "10.0.0.2:8002"

----------------------------------------------------------------------------

\* the list request is the first recorded call of extract_transcript and the only one
FetchedOnce ==
    /\ pc \in {"loop", "returned"} => Len(events) >= 1
    /\ Len(events) >= 1 => events[1].op = "proxy_fetch"
    /\ \A k \in 2..Len(events) : events[k].op # "proxy_fetch"

\* whatever the earlier attempts selected, the next attempt can run with any element
AnySelectable ==
    pc = "loop" /\ attempt < retry_count =>
        \A k \in 1..Len(available_proxies) :
            ENABLED (AttemptSucceeds /\ result'.proxy_used = ProxyName(available_proxies[k]))

\* once the attempts have begun the list stays as it was fetched
ListUntouched == pc = "loop" => available_proxies' = available_proxies

\* C18: the proxy list is fetched exactly once per call, before the first
\* attempt, and is neither fetched again nor modified between attempts; every
\* attempt can select any element of that same list, so a proxy that was blocked
\* in an earlier attempt can be chosen again.
C18_FetchedOnceSelectedFreely ==
    /\ [](FetchedOnce /\ AnySelectable)
    /\ [][ListUntouched]_vars

C18_Witness ==
    /\ Len(events) >= 4
    /\ events[2].op = "fetch" /\ events[2].proxy = "u1"
    /\ events[3].op = "sleep" /\ events[3].kind = "rate_limit"
    /\ Fetches[2].proxy = "u1"
    /\ Len(available_proxies) = 2

----------------------------------------------------------------------------

\* every exception of an attempt is classified by the handler and ends in a
\* retry or in a failure with an error type; none leaves extract_transcript
HandledByClass ==
    /\ pc # "raised"
    /\ JustFailed => ObservedClass = AmendedClass[error_msg]
    /\ (Failed /\ Len(events) > 0) =>
          /\ result.errorType \in ErrorTypes
          /\ result.error # ""

\* the attempt of the last fetch selected a proxy and failed to configure it
ConfigCreationRaised ==
    /\ Len(available_proxies) > 0
    /\ Len(Fetches) > 0
    /\ Fetches[Len(Fetches)].proxy = "none"

\* C17 as stated: any exception raised inside an attempt, that of proxy-config
\* creation included, is caught, classified and turned into a retry or a
\* structured failure, so an attempt in which one was raised never succeeds;
\* no exception leaves extract_transcript.
C17_EveryExceptionRetriedOrFailed ==
    /\ HandledByClass
    /\ ConfigCreationRaised => ~Succeeded

\* C17: an exception raised by the jitter sleep, client construction, the fetch
\* or the conversion is caught by the handler, classified and turned into a
\* retry or a structured failure; an exception raised by proxy-config creation
\* is caught inside create_proxy_config and the attempt goes on without a proxy,
\* reporting proxy_used "none" if it succeeds; no exception leaves extract_transcript.
C17_ExceptionsRecoveredLocally ==
    /\ HandledByClass
    /\ (ConfigCreationRaised /\ Succeeded) => result.proxy_used = "none"

C17_Witness ==
    /\ Failed
    /\ retry_count = 2
    /\ Len(Fetches) = 0
    /\ Len(Sleeps) = 2
    /\ Sleeps[1].kind = "rate_limit"
    /\ result.errorType = "NO_TRANSCRIPT"

====
